---- MODULE Spec2Model ----
(***************************************************************************)
(* wickdb: the log record writer (src/record/writer.rs), the table cache   *)
(* (src/table_cache.rs) and the error type (src/util/status.rs).           *)
(*                                                                         *)
(* Three state machines share this module.  Spec is the record writer: a   *)
(* Writer created on a file at some position, and add_record calls whose   *)
(* loop is taken one iteration at a time, every write of an iteration      *)
(* either succeeding or failing.  SpecCache is the table cache: get,       *)
(* new_iter, evict and the drop of an iterator over a small set of table   *)
(* files.  SpecErr is the error type: WickErr values made by its two       *)
(* constructors and rendered by Display and description(), the text kept   *)
(* as the sequence of its parts.                                           *)
(*                                                                         *)
(* The log file is kept as the sequence of the pieces written to it (old   *)
(* content, padding, header, payload bytes), each with its size, so that   *)
(* the real block size is used without enumerating bytes.  Payload bytes   *)
(* are given by a pattern and an index: the byte at index i of a payload   *)
(* is ByteAt(pat, i), and a piece of payload in the file names the pattern *)
(* and the index of its first byte.                                        *)
(***************************************************************************)
EXTENDS Integers, Sequences, FiniteSets, TLC

\* ------------------------------------------------------------------ bounds

\* add_record calls made on one writer where every call is followed to its end
MaxLiveCalls == 1

\* add_record calls made on one writer
MaxCalls == 2

\* writes (or flushes) of the file that fail, over the life of one writer
MaxFailures == 1

\* operations made on one TableCache
MaxOps == 4

\* ------------------------------------------------------- record constants

\* crate::record::BLOCK_SIZE and HEADER_SIZE (imported at writer.rs:21)
BLOCK_SIZE == 32768
HEADER_SIZE == 7

\* RecordType (record type tag of a header)
RecordTypes == {"Zero", "Full", "First", "Middle", "Last"}

\* ------------------------------------------------------------ the inputs

\* File positions a Writer is created at: block start, inside a block, the
\* last 7 bytes of a block and fewer, exactly a block, inside a later block.
Positions ==
  {0, 5, BLOCK_SIZE - HEADER_SIZE, BLOCK_SIZE - HEADER_SIZE + 1, BLOCK_SIZE - 3,
   BLOCK_SIZE, 2 * BLOCK_SIZE - 1}

\* Payload lengths: empty, short, one short of a block's space, exactly a
\* block's space, one more, over one block, over two blocks.
Lengths ==
  {0, 2, BLOCK_SIZE - HEADER_SIZE - 5, BLOCK_SIZE - HEADER_SIZE,
   BLOCK_SIZE - HEADER_SIZE + 1, 40000, 2 * BLOCK_SIZE + 100}

\* Payload contents: every byte the same, or bytes that change with the index.
Patterns == {"const", "ramp"}

\* The payloads handed to add_record: every length with changing bytes, and
\* one long payload of equal bytes.
Payloads == [len : Lengths, pat : {"ramp"}] \cup {[len |-> 40000, pat |-> "const"]}

\* The byte at index i of a payload of pattern pat.
ByteAt(pat, i) == IF pat = "const" THEN 65 ELSE i % 251

\* Both patterns repeat after 251 bytes: n bytes from index a of p1 equal n
\* bytes from index b of p2 iff the first 251 of them do.
SameBytes(p1, a, p2, b, n) ==
  \A i \in 0 .. ((IF n < 251 THEN n ELSE 251) - 1) :
    ByteAt(p1, a + i) = ByteAt(p2, b + i)

\* -------------------------------------------------------------- the file

\* One piece of the file.  kind: "old" (content before the writer), "pad"
\* (zero bytes), "hdr" (a whole 7-byte header), "data" (payload bytes),
\* "part" (the bytes a failed write left behind).
\* type, len and crc are a header's fields; pat and from say which payload
\* bytes a "data" piece holds.
Piece(kind, size, type, len, crc, pat, from) ==
  [kind |-> kind, size |-> size, type |-> type, len |-> len, crc |-> crc,
   pat |-> pat, from |-> from]

NoCrc == <<>>

OldPiece(n) == Piece("old", n, "Zero", 0, NoCrc, "none", 0)
PadPiece(n) == Piece("pad", n, "Zero", 0, NoCrc, "none", 0)
PartPiece(n) == Piece("part", n, "Zero", 0, NoCrc, "none", 0)
DataPiece(pat, from, n) == Piece("data", n, "Zero", 0, NoCrc, pat, from)

RECURSIVE FileLen(_)
FileLen(f) == IF f = <<>> THEN 0 ELSE f[1].size + FileLen(Tail(f))

\* Appending n bytes: nothing is appended for n = 0.
AppendPiece(f, piece) == IF piece.size = 0 THEN f ELSE Append(f, piece)

\* ------------------------------------------------------------------ crc32

\* crate::util::crc32, kept abstract: a CRC value is the bytes it covers, the
\* type byte and then a stretch of payload, so that
\* extend(value(a), b) = value(a ++ b).
crc32_value(type) == [type |-> type, pat |-> "none", from |-> 0, size |-> 0]

crc32_extend(crc, pat, from, size) ==
  IF size = 0 THEN crc ELSE [crc EXCEPT !.pat = pat, !.from = from, !.size = size]

crc32_mask(crc) == <<"masked", crc>>

\* the CRC-32C of one type byte followed by the size bytes of pattern pat
\* from index from, computed in one go
Crc32cOf(type, pat, from, size) ==
  IF size = 0
  THEN [type |-> type, pat |-> "none", from |-> 0, size |-> 0]
  ELSE [type |-> type, pat |-> pat, from |-> from, size |-> size]

\* Writer.crc_cache: the CRC of the single type byte, for every record type.
crc_cache == [t \in RecordTypes |-> crc32_value(t)]

\* ----------------------------------------------------------------- writer

VARIABLES
  dest,          \* Writer.dest: the file, as the pieces written to it
  block_offset,  \* Writer.block_offset
  pc,            \* "idle" between calls, "loop" inside add_record, "panic"
  data,          \* add_record: the payload s of the call
  left,          \* add_record: left
  begin,         \* add_record: begin
  result,        \* what the last add_record returned: "none", "Ok", "Err"
  start,         \* file position the Writer was created at
  emitted,       \* fragments the current call has written, in order
  call_off,      \* block_offset when the current call started
  call_len,      \* file length when the current call started
  io_failed,     \* a write or flush of the current call has failed
  failures,      \* writes and flushes that failed so far
  calls,         \* add_record calls made so far
  log            \* the payloads of the calls that returned Ok, in order

writer_vars ==
  <<dest, block_offset, pc, data, left, begin, result, start, emitted, call_off,
    call_len, io_failed, failures, calls, log>>

\* (mutant) the position of the file is not looked at
NewBlockOffsetZero(offset) == 0

\* Writer::new: block_offset = offset % BLOCK_SIZE
NewBlockOffset(offset) == offset % BLOCK_SIZE

\* the table cache (below)
VARIABLES
  cache,   \* TableCache.cache
  iters,   \* the iterators new_iter has returned
  leaked,  \* per entry, the handles that get returned without releasing
  last,    \* the last operation and what it did
  ops,     \* operations made so far
  opens    \* per file number, the times env.open was called for its table

cache_vars == <<cache, iters, leaked, last, ops, opens>>

\* util/status.rs: a WickErr and what was printed of it
VARIABLES
  err,        \* the WickErr made last: <<>> before any, else <<[t, msg, raw]>>
  shown,      \* what Display wrote for err, <<>> before it ran
  described   \* what description() returned for err, <<>> before it ran

err_vars == <<err, shown, described>>

\* Writer::new on a file at position p
WriterNew(p) ==
  /\ start = p
  /\ dest = AppendPiece(<<>>, OldPiece(start))
  /\ block_offset = NewBlockOffset(start)
  /\ pc = "idle"
  /\ data = [len |-> 0, pat |-> "ramp"]
  /\ left = 0
  /\ begin = TRUE
  /\ result = "none"
  /\ emitted = <<>>
  /\ call_off = block_offset
  /\ call_len = start
  /\ io_failed = FALSE
  /\ failures = 0
  /\ calls = 0
  /\ log = <<>>

WriterInit == \E p \in Positions : WriterNew(p)

\* add_record, one loop iteration: the values it computes from block_offset,
\* left and begin.
Leftover(off) == BLOCK_SIZE - off

\* (mutant) the switch is made when a header still fits exactly
SwitchBlockOffByOne(leftover) == leftover <= HEADER_SIZE

\* "switch to a new block if the left size is not enough for a record header"
SwitchBlock(leftover) == leftover < HEADER_SIZE

\* the zero bytes written before the switch: &[0;6][..leftover], if leftover != 0
PadSize(off) == IF SwitchBlock(Leftover(off)) THEN Leftover(off) ELSE 0

\* block_offset after the switch
OffsetForHeader(off) == IF SwitchBlock(Leftover(off)) THEN 0 ELSE off

Space(off) == BLOCK_SIZE - OffsetForHeader(off) - HEADER_SIZE

ToWrite(l, space) == IF l < space THEN l ELSE space

FragmentType(b, e) ==
  IF b /\ e THEN "Full"
  ELSE IF b THEN "First"
  ELSE IF e THEN "Last"
  ELSE "Middle"

\* the slice handed to write: &data[..to_write], the first to_write bytes of
\* the payload
SliceFrom(d, l) == 0

\* the three invarint! conditions of an iteration (lines 60, 76, 111, 116)
IterationInvariants(off, l) ==
  LET o == OffsetForHeader(off)
      n == ToWrite(l, Space(off))
  IN /\ BLOCK_SIZE >= off
     /\ BLOCK_SIZE >= o + HEADER_SIZE
     /\ n <= 65535
     /\ o + HEADER_SIZE + n <= BLOCK_SIZE

\* (mutant) the header is not counted
AdvanceOffsetNoHeader(o, n) == o + n

\* write: self.block_offset += HEADER_SIZE + size
AdvanceOffset(o, n) == o + HEADER_SIZE + n

\* (mutant) the header's CRC is the cached CRC of the type byte alone, not
\* extended with the payload
HeaderPieceCrcOfType(rt, pat, from, size) ==
  Piece("hdr", HEADER_SIZE, rt, size, crc32_mask(crc_cache[rt]), "none", 0)

\* write: the header of a fragment
HeaderPiece(rt, pat, from, size) ==
  Piece("hdr", HEADER_SIZE, rt, size,
        crc32_mask(crc32_extend(crc_cache[rt], pat, from, size)), "none", 0)

\* a write_all that fails may have written any part of its n bytes: none of
\* them, or all but the last
Parts == {"none", "most"}
Partial(part, n) == IF part = "most" /\ n > 1 THEN n - 1 ELSE 0

\* (mutant) the error of a write is dropped and the loop goes on
WriteErrorIgnored == [pc |-> "loop", result |-> "none"]

\* the `?` after write_all and flush: the error is returned at once
WriteError == [pc |-> "idle", result |-> "Err"]

\* add_record is called with payload s
AddRecordCall(s) ==
  /\ pc = "idle"
  /\ calls < MaxCalls
  /\ data' = s
  /\ left' = s.len
  /\ begin' = TRUE
  /\ pc' = "loop"
  /\ result' = "none"
  /\ emitted' = <<>>
  /\ call_off' = block_offset
  /\ call_len' = FileLen(dest)
  /\ io_failed' = FALSE
  /\ calls' = calls + 1
  /\ UNCHANGED <<dest, block_offset, start, failures, log>>
  /\ UNCHANGED <<cache_vars, err_vars>>

\* one iteration of `while left > 0` in which every write succeeds (an
\* invarint! that does not hold ends the call in a panic)
AddRecordIter ==
  /\ pc = "loop"
  /\ left > 0
  /\ LET pad == PadSize(block_offset)
         o == OffsetForHeader(block_offset)
         n == ToWrite(left, Space(block_offset))
         t == FragmentType(begin, n = left)
         from == SliceFrom(data.len, left)
         padded == AppendPiece(dest, PadPiece(pad))
     IN IF IterationInvariants(block_offset, left)
        THEN /\ dest' = AppendPiece(Append(padded, HeaderPiece(t, data.pat, from, n)),
                                    DataPiece(data.pat, from, n))
             /\ block_offset' = AdvanceOffset(o, n)
             /\ left' = left - n
             /\ begin' = FALSE
             /\ emitted' = Append(emitted,
                                  [type |-> t, size |-> n, from |-> from,
                                   at |-> FileLen(padded), pad |-> pad])
             /\ pc' = "loop"
        ELSE /\ pc' = "panic"
             /\ dest' = IF BLOCK_SIZE >= block_offset THEN padded ELSE dest
             /\ block_offset' = IF BLOCK_SIZE >= block_offset THEN o ELSE block_offset
             /\ UNCHANGED <<left, begin, emitted>>
  /\ UNCHANGED <<data, result, start, call_off, call_len, io_failed, failures, calls, log>>
  /\ UNCHANGED <<cache_vars, err_vars>>

\* one iteration in which a write fails: the padding (line 72), the header
\* (line 133), the payload (line 134) or the flush (line 135); part of the
\* bytes of the failed write reached the file
AddRecordFail(where, part) ==
  /\ pc = "loop"
  /\ left > 0
  /\ failures < MaxFailures
  /\ IterationInvariants(block_offset, left)
  /\ LET pad == PadSize(block_offset)
         o == OffsetForHeader(block_offset)
         n == ToWrite(left, Space(block_offset))
         t == FragmentType(begin, n = left)
         from == SliceFrom(data.len, left)
         padded == AppendPiece(dest, PadPiece(pad))
         headed == Append(padded, HeaderPiece(t, data.pat, from, n))
     IN \/ /\ where = "pad"
           /\ pad > 0
           /\ part = "most" => pad > 1
           /\ dest' = AppendPiece(dest, PadPiece(Partial(part, pad)))
           /\ UNCHANGED block_offset
        \/ /\ where = "header"
           /\ dest' = AppendPiece(padded, PartPiece(Partial(part, HEADER_SIZE)))
           /\ block_offset' = o
        \/ /\ where = "payload"
           /\ n > 0
           /\ part = "most" => n > 1
           /\ dest' = AppendPiece(headed, DataPiece(data.pat, from, Partial(part, n)))
           /\ block_offset' = o
        \/ /\ where = "flush"
           /\ part = "none"
           /\ dest' = AppendPiece(headed, DataPiece(data.pat, from, n))
           /\ block_offset' = o
  /\ pc' = WriteError.pc
  /\ result' = WriteError.result
  /\ io_failed' = TRUE
  /\ failures' = failures + 1
  /\ UNCHANGED <<data, left, begin, start, emitted, call_off, call_len, calls, log>>
  /\ UNCHANGED <<cache_vars, err_vars>>

\* the loop has ended: Ok(())
AddRecordReturn ==
  /\ pc = "loop"
  /\ left = 0
  /\ pc' = "idle"
  /\ result' = "Ok"
  /\ log' = Append(log, data)
  /\ UNCHANGED <<dest, block_offset, data, left, begin, start, emitted, call_off,
                 call_len, io_failed, failures, calls>>
  /\ UNCHANGED <<cache_vars, err_vars>>

WriterNext ==
  \/ \E s \in Payloads : AddRecordCall(s)
  \/ AddRecordIter
  \/ \E where \in {"pad", "header", "payload", "flush"} :
       \E part \in Parts : AddRecordFail(where, part)
  \/ AddRecordReturn

\* ----------------------------------------------------------------- reader

\* The log reader of the record format (the state machine of the format's
\* reader; this repository's source holds the writer only).  It reads the
\* file from position pos on: in a block tail shorter than a header it skips
\* the zero padding; elsewhere it takes a header, checks length and CRC and
\* follows Full / First Middle* Last.  A record is the sequence of payload
\* stretches it was put together from.  Anything else ends the reading with
\* a "corruption" entry.
Corruption == <<[pat |-> "corruption", from |-> 0, size |-> 0]>>

Stretch(piece) == [pat |-> piece.pat, from |-> piece.from, size |-> piece.size]

RECURSIVE ReadFrom(_, _, _, _, _, _)
ReadFrom(f, i, pos, buf, inrec, out) ==
  IF i > Len(f) THEN out
  ELSE
    LET tailsize == BLOCK_SIZE - (pos % BLOCK_SIZE)
        h == f[i]
        haspayload == h.len > 0
        d == f[i + 1]
        payload == IF haspayload THEN <<Stretch(d)>> ELSE <<>>
        crc == IF haspayload
               THEN crc32_mask(crc32_extend(crc32_value(h.type), d.pat, d.from, d.size))
               ELSE crc32_mask(crc32_value(h.type))
        next == IF haspayload THEN i + 2 ELSE i + 1
        after == pos + HEADER_SIZE + h.len
    IN IF tailsize < HEADER_SIZE
       THEN IF h.kind = "pad" /\ h.size = tailsize
            THEN ReadFrom(f, i + 1, pos + tailsize, buf, inrec, out)
            ELSE Append(out, Corruption)
       ELSE IF \/ h.kind # "hdr"
               \/ h.len > tailsize - HEADER_SIZE
               \/ haspayload /\ i + 1 > Len(f)
            THEN Append(out, Corruption)
       ELSE IF \/ haspayload /\ (d.kind # "data" \/ d.size # h.len)
               \/ h.crc # crc
            THEN Append(out, Corruption)
       ELSE IF h.type = "Full" /\ ~inrec
            THEN ReadFrom(f, next, after, <<>>, FALSE, Append(out, payload))
       ELSE IF h.type = "First" /\ ~inrec
            THEN ReadFrom(f, next, after, payload, TRUE, out)
       ELSE IF h.type = "Middle" /\ inrec
            THEN ReadFrom(f, next, after, buf \o payload, TRUE, out)
       ELSE IF h.type = "Last" /\ inrec
            THEN ReadFrom(f, next, after, <<>>, FALSE, Append(out, buf \o payload))
       ELSE Append(out, Corruption)

\* Reading the records written after position p of file f.
ReadLog(f, p) == ReadFrom(f, (IF p = 0 THEN 1 ELSE 2), p, <<>>, FALSE, <<>>)

\* The bytes of record rec (stretches) are the bytes of the payload from
\* index at on, and nothing else.
RECURSIVE RecordIs(_, _, _)
RecordIs(rec, payload, at) ==
  IF rec = <<>> THEN at = payload.len
  ELSE /\ rec[1].pat # "corruption"
       /\ at + rec[1].size <= payload.len
       /\ SameBytes(rec[1].pat, rec[1].from, payload.pat, at, rec[1].size)
       /\ RecordIs(Tail(rec), payload, at + rec[1].size)

\* ------------------------------------------------------------ the cache

\* File numbers of the tables looked up, and the capacity of the cache
\* (TableCache::new's size).
Files == {5, 300}
Capacity == 2

\* VarintU64::put_varint: seven bits a byte, low bits first, the top bit set
\* on every byte but the last.
RECURSIVE Varint(_)
Varint(n) == IF n < 128 THEN <<n>> ELSE <<(n % 128) + 128>> \o Varint(n \div 128)

\* crate::cache::Cache<Rc<Table>> (SharedLRUCache), by its contract.  A cache
\* is its entries, in the order they were made, and the resident ones from
\* least to most recently used.  An entry has the key, the file whose Table
\* it holds, the charge, the pin count (handles not yet released), whether
\* the index still holds it, and whether its value has been dropped.  A
\* handle is the number of its entry; 0 is no handle.
Entry(file) ==
  [key |-> Varint(file), file |-> file, charge |-> 1, pins |-> 0,
   resident |-> TRUE, dropped |-> FALSE]

\* the resident entry under key k, or 0
Resident(c, k) ==
  IF \E e \in 1 .. Len(c.entries) : c.entries[e].resident /\ c.entries[e].key = k
  THEN CHOOSE e \in 1 .. Len(c.entries) : c.entries[e].resident /\ c.entries[e].key = k
  ELSE 0

Without(seq, x) == SelectSeq(seq, LAMBDA y : y # x)

\* look_up on a hit: the entry is pinned once more and becomes the most
\* recently used
look_up(c, e) ==
  [entries |-> [c.entries EXCEPT ![e].pins = @ + 1],
   lru |-> Append(Without(c.lru, e), e)]

\* an entry leaves the index: its value is dropped now if nothing pins it
Unlink(c, e) ==
  [entries |-> [c.entries EXCEPT ![e].resident = FALSE,
                                 ![e].dropped = (c.entries[e].pins = 0)],
   lru |-> Without(c.lru, e)]

\* erase(key)
erase(c, k) == IF Resident(c, k) = 0 THEN c ELSE Unlink(c, Resident(c, k))

\* release(handle): one pin less; the value of an entry that is no longer
\* resident is dropped with its last pin
release(c, e) ==
  [c EXCEPT !.entries[e].pins = @ - 1,
            !.entries[e].dropped = (c.entries[e].pins = 1 /\ ~c.entries[e].resident)]

\* the charge of the resident entries
RECURSIVE Usage(_, _)
Usage(c, l) == IF l = <<>> THEN 0 ELSE c.entries[l[1]].charge + Usage(c, Tail(l))

\* the least recently used unpinned entries leave while the capacity is
\* exceeded
RECURSIVE Shrink(_, _)
Shrink(c, i) ==
  IF i > Len(c.lru) \/ Usage(c, c.lru) <= Capacity THEN c
  ELSE IF c.entries[c.lru[i]].pins = 0 THEN Shrink(Unlink(c, c.lru[i]), i)
  ELSE Shrink(c, i + 1)

\* insert(key, value, charge 1, None): an entry already under the key leaves
\* the index, the new entry is resident and pinned once; its handle is
\* Len(entries) of the result
insert(c, file) ==
  LET old == erase(c, Varint(file))
      new == [entries |-> Append(old.entries, [Entry(file) EXCEPT !.pins = 1]),
              lru |-> Append(old.lru, Len(old.entries) + 1)]
  IN Shrink(new, 1)

\* ------------------------------------------------------------ table cache

NoOp ==
  [op |-> "none", file |-> 0, path |-> "none", outcome |-> "none", opened |-> FALSE,
   handle |-> 0, pins_before |-> 0]

\* TableCache::new: an empty cache
EmptyCache == [entries |-> <<>>, lru |-> <<>>]

TableCacheNew ==
  /\ cache = EmptyCache
  /\ iters = <<>>
  /\ leaked = <<>>
  /\ last = NoOp
  /\ ops = 0
  /\ opens = [f \in Files |-> 0]

\* a cache in which the tables of files are resident and unpinned
RECURSIVE CacheOf(_)
CacheOf(files) ==
  IF files = {} THEN EmptyCache
  ELSE LET f == CHOOSE x \in files : \A y \in files : x >= y
           c == CacheOf(files \ {f})
       IN [entries |-> Append(c.entries, Entry(f)),
           lru |-> Append(c.lru, Len(c.entries) + 1)]

\* What the storage and the table do in one operation: "ok", or the step
\* that fails: env.open, Table::open, internal_get.
Outcomes == {"ok", "open_err", "table_err", "get_err"}

\* (mutant) the Ref of the scrutinee is released before the arms run
ScrutineeBorrowReleased == FALSE

\* find_table, line 57: `match self.cache.borrow().look_up(..)`.  The Ref that
\* borrow() returns is a temporary of the scrutinee and lives to the end of
\* the match, the None arm included.
ScrutineeBorrowLive == TRUE

\* (mutant) the entry is inserted before the file is opened and stays in the
\* cache, unpinned, when the open or Table::open fails
find_table_InsertFirst(c, file, io) ==
  LET hit == Resident(c, Varint(file))
      inserted == insert(c, file)
  IN IF hit # 0
     THEN [cache |-> look_up(c, hit), path |-> "hit", outcome |-> "Ok",
           opened |-> FALSE, handle |-> hit]
     ELSE IF io \in {"open_err", "table_err"}
     THEN [cache |-> release(inserted, Len(inserted.entries)), path |-> "miss",
           outcome |-> "Err", opened |-> TRUE, handle |-> 0]
     ELSE [cache |-> inserted, path |-> "miss", outcome |-> "Ok", opened |-> TRUE,
           handle |-> Len(inserted.entries)]

\* find_table(file_number, file_size).  path: "hit" or "miss"; outcome: "Ok"
\* (handle is the pinned entry), "Err" (open or Table::open failed), or
\* "panic": borrow_mut on the RefCell while the scrutinee's Ref is live
\* (BorrowMutError), before insert has run.
find_table(c, file, io) ==
  LET hit == Resident(c, Varint(file))
      inserted == insert(c, file)
  IN IF hit # 0
     THEN [cache |-> look_up(c, hit), path |-> "hit", outcome |-> "Ok",
           opened |-> FALSE, handle |-> hit]
     ELSE IF io \in {"open_err", "table_err"}
     THEN [cache |-> c, path |-> "miss", outcome |-> "Err", opened |-> TRUE, handle |-> 0]
     ELSE IF ScrutineeBorrowLive
     THEN [cache |-> c, path |-> "miss", outcome |-> "panic", opened |-> TRUE, handle |-> 0]
     ELSE [cache |-> inserted, path |-> "miss", outcome |-> "Ok", opened |-> TRUE,
           handle |-> Len(inserted.entries)]

\* env.open has been called once more for the table of file
Opened(o, file, opened) == IF opened THEN [o EXCEPT ![file] = @ + 1] ELSE o

\* the failures that can happen on the path find_table takes
Possible(c, file, io) ==
  IF Resident(c, Varint(file)) # 0
  THEN io \in {"ok", "get_err"}
  ELSE io \in {"ok", "open_err", "table_err"}

PinsOf(c, e) == IF e = 0 THEN 0 ELSE c.entries[e].pins

\* leaked, made as long as the entries
Grown(l, c) == [e \in 1 .. Len(c.entries) |-> IF e <= Len(l) THEN l[e] ELSE 0]

\* get: find_table?, internal_get?, release(handle), Ok(parsed_key)
Get(file, io) ==
  /\ ops < MaxOps
  /\ Possible(cache, file, io)
  /\ LET found == find_table(cache, file, io)
         h == found.handle
         failed == found.outcome = "Ok" /\ io = "get_err"
     IN /\ cache' = IF found.outcome = "Ok" /\ ~failed
                    THEN release(found.cache, h)
                    ELSE found.cache
        /\ leaked' = IF failed
                     THEN [Grown(leaked, found.cache) EXCEPT ![h] = @ + 1]
                     ELSE Grown(leaked, found.cache)
        /\ last' = [op |-> "get", file |-> file, path |-> found.path,
                    outcome |-> IF failed THEN "Err" ELSE found.outcome,
                    opened |-> found.opened, handle |-> h,
                    pins_before |-> PinsOf(cache, Resident(cache, Varint(file)))]
  /\ ops' = ops + 1
  /\ opens' = Opened(opens, file, find_table(cache, file, io).opened)
  /\ UNCHANGED iters
  /\ UNCHANGED <<writer_vars, err_vars>>

\* (mutant) the cleanup of the iterator releases nothing
CleanupNoRelease(c, h) == c

\* new_iter, line 97: the task registered on the iterator,
\* cache.borrow_mut().release(h.clone())
Cleanup(c, h) == release(c, h)

\* new_iter: on Ok(h) an iterator over the table that keeps h for its
\* cleanup; on Err an EmptyIterator with the error
NewIter(file, io) ==
  /\ ops < MaxOps
  /\ Possible(cache, file, io)
  /\ io # "get_err"
  /\ LET found == find_table(cache, file, io)
     IN /\ cache' = found.cache
        /\ iters' = IF found.outcome = "Ok"
                    THEN Append(iters, [kind |-> "table", handle |-> found.handle, live |-> TRUE])
                    ELSE IF found.outcome = "Err"
                    THEN Append(iters, [kind |-> "empty", handle |-> 0, live |-> TRUE])
                    ELSE iters
        /\ leaked' = Grown(leaked, found.cache)
        /\ last' = [op |-> "new_iter", file |-> file, path |-> found.path,
                    outcome |-> found.outcome, opened |-> found.opened,
                    handle |-> found.handle,
                    pins_before |-> PinsOf(cache, Resident(cache, Varint(file)))]
  /\ ops' = ops + 1
  /\ opens' = Opened(opens, file, find_table(cache, file, io).opened)
  /\ UNCHANGED <<writer_vars, err_vars>>

\* (mutant) the key of evict is the file number as one byte, not its varint
EvictKeyOneByte(file) == <<file % 256>>

\* evict, lines 70-71: the key is the varint of the file number
EvictKey(file) == Varint(file)

\* evict: erase(key)
Evict(file) ==
  /\ ops < MaxOps
  /\ cache' = erase(cache, EvictKey(file))
  /\ last' = [op |-> "evict", file |-> file, path |-> "none", outcome |-> "Ok",
              opened |-> FALSE, handle |-> Resident(cache, Varint(file)),
              pins_before |-> PinsOf(cache, Resident(cache, Varint(file)))]
  /\ ops' = ops + 1
  /\ UNCHANGED <<iters, leaked, opens>>
  /\ UNCHANGED <<writer_vars, err_vars>>

\* an iterator is dropped: its cleanup task runs, once
DropIter(i) ==
  /\ i \in 1 .. Len(iters)
  /\ iters[i].live
  /\ cache' = IF iters[i].kind = "table" THEN Cleanup(cache, iters[i].handle) ELSE cache
  /\ iters' = [iters EXCEPT ![i].live = FALSE]
  /\ last' = [op |-> "drop", file |-> 0, path |-> "none", outcome |-> "Ok",
              opened |-> FALSE, handle |-> iters[i].handle,
              pins_before |-> PinsOf(cache, iters[i].handle)]
  /\ UNCHANGED <<leaked, ops, opens>>
  /\ UNCHANGED <<writer_vars, err_vars>>

CacheNext ==
  \/ \E file \in Files, io \in Outcomes : Get(file, io)
  \/ \E file \in Files, io \in Outcomes : NewIter(file, io)
  \/ \E file \in Files : Evict(file)
  \/ \E i \in 1 .. MaxOps : DropIter(i)

\* ------------------------------------------------- util/status.rs: WickErr

\* Status, lines 22-29
Status ==
  {"NotFound", "Corruption", "NotSupported", "InvalidArgument",
   "CompressionError", "IOError"}

\* Status::as_str, lines 32-41
as_str(t) ==
  CASE t = "NotFound" -> "NotFoundError"
    [] t = "Corruption" -> "CorruptionError"
    [] t = "NotSupported" -> "NotSupportedError"
    [] t = "InvalidArgument" -> "InvalidArgumentError"
    [] t = "CompressionError" -> "CompressionError"
    [] t = "IOError" -> "IOError"

\* Option<T>: None is the empty sequence, Some(x) the sequence of x
None == <<>>
Some(x) == <<x>>

\* the messages (&'static str) and the causes (by their description()) that
\* errors are made with; no message is the text of a cause
Messages == {"open failed", "bad block"}
Causes == {"No such file", "unexpected eof"}

NoWickErr ==
  /\ err = <<>>
  /\ shown = <<>>
  /\ described = <<>>

\* WickErr::new
WickErrNew(t, msg) ==
  /\ err' = <<[t |-> t, msg |-> msg, raw |-> None]>>
  /\ shown' = <<>>
  /\ described' = <<>>
  /\ UNCHANGED <<writer_vars, cache_vars>>

\* WickErr::new_from_raw
WickErrNewFromRaw(t, msg, raw) ==
  /\ err' = <<[t |-> t, msg |-> msg, raw |-> Some(raw)]>>
  /\ shown' = <<>>
  /\ described' = <<>>
  /\ UNCHANGED <<writer_vars, cache_vars>>

\* Display::fmt: the text written, as the sequence of the format string's
\* literal parts and the values put between them
fmt(e) ==
  IF e.msg # None
  THEN IF e.raw # None
       THEN <<"WickDB error [", as_str(e.t), "]", " : ", e.msg[1], " , raw : ", e.raw[1]>>
       ELSE <<"WickDB error [", as_str(e.t), "]", " : ", e.msg[1]>>
  ELSE IF e.raw # None
       THEN <<"WickDB error [", as_str(e.t), "]", " : ", e.raw[1]>>
       ELSE <<"WickDB error [", as_str(e.t), "]">>

\* Error::description
description(e) ==
  IF e.msg # None THEN e.msg[1]
  ELSE IF e.raw # None THEN e.raw[1]
  ELSE ""

\* the error is printed with {}
WickErrDisplay ==
  /\ err # <<>>
  /\ shown = <<>>
  /\ shown' = fmt(err[1])
  /\ UNCHANGED <<err, described>>
  /\ UNCHANGED <<writer_vars, cache_vars>>

\* description() is called on the error
WickErrDescription ==
  /\ err # <<>>
  /\ described = <<>>
  /\ described' = <<description(err[1])>>
  /\ UNCHANGED <<err, shown>>
  /\ UNCHANGED <<writer_vars, cache_vars>>

WickErrNext ==
  \/ \E t \in Status, msg \in {None} \cup {Some(m) : m \in Messages} :
       WickErrNew(t, msg)
  \/ \E t \in Status, msg \in {None} \cup {Some(m) : m \in Messages}, raw \in Causes :
       WickErrNewFromRaw(t, msg, raw)
  \/ WickErrDisplay
  \/ WickErrDescription

\* --------------------------------------------------------- specifications

vars == <<writer_vars, cache_vars, err_vars>>

\* The record writer: a Writer on a file at any of Positions.
Init == WriterInit /\ TableCacheNew /\ NoWickErr

Next == WriterNext

Spec == Init /\ [][Next]_vars

\* The record writer whose calls run on: add_record is straight-line code
\* around one loop, so an iteration that can be taken is taken and a loop that
\* has ended returns.
AddRecordCallLive(s) == calls < MaxLiveCalls /\ AddRecordCall(s)

NextLive ==
  \/ \E s \in Payloads : AddRecordCallLive(s)
  \/ AddRecordIter
  \/ \E where \in {"pad", "header", "payload", "flush"}, part \in Parts :
       AddRecordFail(where, part)
  \/ AddRecordReturn

SpecLive ==
  Init /\ [][NextLive]_vars /\ WF_vars(AddRecordIter) /\ WF_vars(AddRecordReturn)

\* The table cache.  TableCache::new makes the cache empty; the operations
\* are followed from a cache that holds any of the tables of Files, resident
\* and unpinned, which is the state the hit paths of get and new_iter and
\* evict are written for.
InitCache ==
  /\ WriterNew(0)
  /\ \E files \in SUBSET Files : cache = CacheOf(files)
  /\ iters = <<>>
  /\ leaked = [e \in 1 .. Len(cache.entries) |-> 0]
  /\ last = NoOp
  /\ ops = 0
  /\ opens = [f \in Files |-> 0]
  /\ NoWickErr

NextCache == CacheNext

SpecCache == InitCache /\ [][NextCache]_vars

\* The error type: errors of every kind, with and without a message and a
\* cause, printed and described.
InitErr == WriterNew(0) /\ TableCacheNew /\ NoWickErr

NextErr == WickErrNext

SpecErr == InitErr /\ [][NextErr]_vars

\* ------------------------------------------------------- writer: claims

RECURSIVE SumSizes(_)
SumSizes(frags) == IF frags = <<>> THEN 0 ELSE frags[1].size + SumSizes(Tail(frags))

\* the type tags of frags match Full | First Middle* Last
WellFormedTypes(frags) ==
  \/ Len(frags) = 1 /\ frags[1].type = "Full"
  \/ /\ Len(frags) >= 2
     /\ frags[1].type = "First"
     /\ frags[Len(frags)].type = "Last"
     /\ \A i \in 2 .. Len(frags) - 1 : frags[i].type = "Middle"

\* the piece of file f that starts at position pos ("none" if no piece does)
RECURSIVE PieceAt(_, _)
PieceAt(f, pos) ==
  IF f = <<>> \/ pos < 0 THEN PadPiece(0)
  ELSE IF pos = 0 THEN f[1]
  ELSE PieceAt(Tail(f), pos - f[1].size)

AllWritesSucceeded == failures = 0

\* C1: when every write succeeded, reading the file from the position the
\* writer was created at yields exactly the payloads appended, in order.
C1_RoundTrip ==
  (pc = "idle" /\ AllWritesSucceeded) =>
    LET got == ReadLog(dest, start)
    IN /\ Len(got) = Len(log)
       /\ \A i \in 1 .. Len(log) : RecordIs(got[i], log[i], 0)

\* C2: add_record of an empty payload that returns Ok has written exactly one
\* fragment, Full with length 0: the file grew by the padding and 7 bytes
\* and block_offset is 7 past the place of the header.
C2_EmptyPayloadOneFullRecord ==
  (pc = "idle" /\ result = "Ok" /\ data.len = 0) =>
    /\ Len(emitted) = 1
    /\ emitted[1].type = "Full"
    /\ emitted[1].size = 0
    /\ FileLen(dest) = call_len + PadSize(call_off) + HEADER_SIZE
    /\ block_offset = OffsetForHeader(call_off) + HEADER_SIZE

\* C3: the fragments of an add_record call that returned Ok have payload
\* lengths that sum to the payload's length and type tags that match
\* Full | First Middle* Last.
C3_FragmentsOfOneRecord ==
  (pc = "idle" /\ result = "Ok") =>
    /\ SumSizes(emitted) = data.len
    /\ WellFormedTypes(emitted)

\* C7: while every write succeeds, each fragment lies inside one block: its
\* header starts at a file offset o with o mod 32768 + 7 <= 32768, header and
\* payload end at or before the end of that block, and the payload is at
\* most 32761 bytes (and fits the 16-bit length field).
C7_FragmentInsideBlock ==
  AllWritesSucceeded =>
    \A i \in 1 .. Len(emitted) :
      LET o == emitted[i].at % BLOCK_SIZE
      IN /\ PieceAt(dest, emitted[i].at).kind = "hdr"
         /\ o + HEADER_SIZE <= BLOCK_SIZE
         /\ o + HEADER_SIZE + emitted[i].size <= BLOCK_SIZE
         /\ emitted[i].size <= BLOCK_SIZE - HEADER_SIZE
         /\ emitted[i].size < 65536

\* a call has written a fragment after padding, one that fills its block to
\* the end, and a further one
C7_Witness ==
  /\ AllWritesSucceeded
  /\ Len(emitted) >= 2
  /\ emitted[1].pad > 0
  /\ emitted[1].size = BLOCK_SIZE - HEADER_SIZE

\* C8 as stated: between calls (after Writer::new and after add_record
\* returned Ok, no write having failed) block_offset is the file length
\* modulo 32768 and so 0 <= block_offset < 32768.
C8_OffsetIsLengthModBlock ==
  (pc = "idle" /\ AllWritesSucceeded) =>
    /\ block_offset = FileLen(dest) % BLOCK_SIZE
    /\ 0 <= block_offset
    /\ block_offset < BLOCK_SIZE

\* C8 amended: block_offset is always in 0 .. 32768; between calls, no write
\* having failed, it is congruent to the file length modulo 32768: it is 32768
\* (not 0) when the last fragment ended at the end of its block.
C8_OffsetCongruentToLength ==
  /\ 0 <= block_offset
  /\ block_offset <= BLOCK_SIZE
  /\ (pc = "idle" /\ AllWritesSucceeded) =>
       /\ block_offset % BLOCK_SIZE = FileLen(dest) % BLOCK_SIZE
       /\ block_offset = BLOCK_SIZE => Len(dest) > 0 /\ dest[Len(dest)].kind \in {"hdr", "data"}

\* add_record returned Ok with block_offset = 32768
C8_Witness ==
  /\ pc = "idle"
  /\ result = "Ok"
  /\ AllWritesSucceeded
  /\ block_offset = BLOCK_SIZE
  /\ start % BLOCK_SIZE # 0

\* C9: the first header of a call comes after exactly B - off zero bytes and
\* at a block boundary when fewer than 7 bytes were left in the block at the
\* start of the call, and right at the end of the file as it was, with no
\* padding, when 7 or more were left.
C9_PaddingBeforeHeader ==
  (AllWritesSucceeded /\ Len(emitted) >= 1) =>
    LET remaining == BLOCK_SIZE - call_off
        first == emitted[1]
    IN IF remaining < HEADER_SIZE
       THEN /\ first.pad = remaining
            /\ first.at = call_len + remaining
            /\ first.at % BLOCK_SIZE = 0
            /\ remaining > 0 =>
                 /\ PieceAt(dest, call_len).kind = "pad"
                 /\ PieceAt(dest, call_len).size = remaining
            /\ PieceAt(dest, first.at).kind = "hdr"
       ELSE /\ first.pad = 0
            /\ first.at = call_len
            /\ PieceAt(dest, call_len).kind = "hdr"

\* a call that started with 1 to 6 bytes left in the block has written its
\* first header
C9_Witness ==
  /\ AllWritesSucceeded
  /\ Len(emitted) >= 1
  /\ BLOCK_SIZE - call_off < HEADER_SIZE
  /\ BLOCK_SIZE - call_off > 0
  /\ emitted[1].pad = BLOCK_SIZE - call_off

\* C10: a failed write or flush ends the call at once with Err (the loop is
\* not running after it), and Ok is returned only when no write of the call
\* failed and the fragments written carry as many bytes as the payload has.
C10_AllOrError ==
  /\ io_failed => (pc = "idle" /\ result = "Err")
  /\ result = "Err" => io_failed
  /\ result = "Ok" => (~io_failed /\ SumSizes(emitted) = data.len)

\* a call has failed after it had written a whole fragment
C10_Witness ==
  /\ result = "Err"
  /\ io_failed
  /\ Len(emitted) >= 1
  /\ FileLen(dest) > call_len + emitted[1].pad + HEADER_SIZE + emitted[1].size

\* -------------------------------------------------- table cache: claims

\* the live iterators that hold handle e
LiveItersOn(e) ==
  Cardinality({i \in 1 .. Len(iters) :
                 iters[i].live /\ iters[i].kind = "table" /\ iters[i].handle = e})

C6_FindTable ==
  (last.op \in {"get", "new_iter"}) =>
    /\ last.path = "hit" =>
         /\ ~last.opened
         /\ last.handle # 0
         /\ cache.entries[last.handle].key = Varint(last.file)
    /\ (last.path = "miss" /\ last.outcome # "Err") =>
         /\ last.outcome = "Ok"
         /\ last.opened
         /\ last.handle = Len(cache.entries)
         /\ Resident(cache, Varint(last.file)) = last.handle
         /\ cache.entries[last.handle].charge = 1

\* C11: a find_table (from get or new_iter) whose open or Table::open fails
\* leaves the cache as it was, entries and pin counts, and hands the error to
\* the caller (Err from get, an EmptyIterator from new_iter); the next
\* find_table for the same file number misses again and opens the file again.
C11_OpenFailureLeavesCache ==
  [][(ops' = ops + 1 /\ last'.op \in {"get", "new_iter"}) =>
       /\ (last'.path = "miss" /\ last'.outcome = "Err") =>
            /\ cache' = cache
            /\ last'.opened
            /\ last'.handle = 0
            /\ last'.op = "new_iter" =>
                 /\ Len(iters') = Len(iters) + 1
                 /\ iters'[Len(iters')].kind = "empty"
       /\ (last.path = "miss" /\ last.outcome = "Err" /\ last'.file = last.file) =>
            /\ last'.path = "miss"
            /\ last'.opened
            /\ opens'[last.file] = opens[last.file] + 1
    ]_vars

\* the open of a file has failed for the second time, with an iterator still
\* pinning the table of another file
C11_Witness ==
  /\ last.path = "miss"
  /\ last.outcome = "Err"
  /\ opens[last.file] >= 2
  /\ \E e \in 1 .. Len(cache.entries) : cache.entries[e].pins > 0

C14_HeaderCrcCoversTypeAndPayload ==
  \A i \in 1 .. Len(emitted) :
    LET h == PieceAt(dest, emitted[i].at)
        d == PieceAt(dest, emitted[i].at + HEADER_SIZE)
    IN /\ h.kind = "hdr"
       /\ h.type = emitted[i].type
       /\ h.len = emitted[i].size
       /\ h.len > 0 =>
            /\ d.kind = "data"
            /\ d.size = h.len
            /\ h.crc = crc32_mask(Crc32cOf(h.type, d.pat, d.from, d.size))
       /\ h.len = 0 => h.crc = crc32_mask(Crc32cOf(h.type, "none", 0, 0))

\* a call has returned Ok after writing a First, a Middle and a Last fragment
\* with payload bytes in each
C14_Witness ==
  /\ pc = "idle"
  /\ result = "Ok"
  /\ Len(emitted) >= 3
  /\ \A i \in 1 .. Len(emitted) : emitted[i].size > 0
  /\ emitted[2].type = "Middle"

\* C16: with d the payload bytes the earlier fragments of the call carried,
\* every fragment carries the bytes payload[d .. d + frag), where frag is the
\* smaller of what is left (len - d) and the room in the block after the
\* header (32768 - off - 7); the fragments' payloads, one after the other,
\* are the payload.
C16_FragmentCarriesNextBytes ==
  AllWritesSucceeded =>
    /\ \A i \in 1 .. Len(emitted) :
         LET d == SumSizes(SubSeq(emitted, 1, i - 1))
             off == emitted[i].at % BLOCK_SIZE
             room == BLOCK_SIZE - off - HEADER_SIZE
             frag == IF data.len - d < room THEN data.len - d ELSE room
             piece == PieceAt(dest, emitted[i].at + HEADER_SIZE)
         IN /\ emitted[i].size = frag
            /\ frag > 0 =>
                 /\ piece.kind = "data"
                 /\ piece.size = frag
                 /\ SameBytes(piece.pat, piece.from, data.pat, d, frag)
    /\ (pc = "idle" /\ result = "Ok") => SumSizes(emitted) = data.len

\* C17: every add_record call comes to its end; while it runs, the
\* fragments written and the bytes left account for the payload, the
\* fragments are no more than the payload needs at 32761 bytes each plus two,
\* a fragment without payload bytes is the first of its call, written from
\* offset 32761 where the block has room for the header only, and any two
\* fragments in a row carry at least one byte.
C17_AddRecordTerminates ==
  /\ [](/\ pc = "loop" => left + SumSizes(emitted) = data.len
        /\ Len(emitted) <= data.len \div (BLOCK_SIZE - HEADER_SIZE) + 2
        /\ \A i \in 1 .. Len(emitted) :
             emitted[i].size = 0 =>
               /\ i = 1
               /\ emitted[i].type = "First"
               /\ call_off = BLOCK_SIZE - HEADER_SIZE
        /\ \A i \in 1 .. Len(emitted) - 1 :
             emitted[i].size + emitted[i + 1].size >= 1)
  /\ (pc = "loop") ~> (pc = "idle")

\* a call that started at offset 32761 has returned Ok after a First fragment
\* without payload bytes and at least two fragments more
C17_Witness ==
  /\ pc = "idle"
  /\ result = "Ok"
  /\ call_off = BLOCK_SIZE - HEADER_SIZE
  /\ Len(emitted) >= 3
  /\ emitted[1].size = 0
  /\ emitted[1].type = "First"

\* C18: no operation of the TableCache asks for borrow_mut on the cache's
\* RefCell while a borrow of it is live: none of get, new_iter, evict and the
\* drop of an iterator ends in the panic of a borrow conflict.
C18_NoBorrowConflict == last.outcome # "panic"

\* C19: between calls, also after a call that failed part-way, block_offset
\* is congruent modulo 32768 to the length of the file, and every fragment
\* written, by calls after a failed one too, lies inside one block of the
\* file.
C19_OffsetSurvivesFailure ==
  /\ pc = "idle" => block_offset % BLOCK_SIZE = FileLen(dest) % BLOCK_SIZE
  /\ \A i \in 1 .. Len(emitted) :
       (emitted[i].at % BLOCK_SIZE) + HEADER_SIZE + emitted[i].size <= BLOCK_SIZE

\* the text the claim gives for an error: the kind, then the message with its
\* label " : " if there is one, then the cause with its label " , raw : " if
\* there is one
Rendering(e) ==
  <<"WickDB error [", as_str(e.t), "]">>
    \o (IF e.msg # None THEN <<" : ", e.msg[1]>> ELSE <<>>)
    \o (IF e.raw # None THEN <<" , raw : ", e.raw[1]>> ELSE <<>>)

\* C15: what Display writes for a WickErr is `WickDB error [<kind>]`, then
\* ` : <msg>` if there is a message, then ` , raw : <cause>` if there is a
\* cause; so a cause always comes after " , raw : " and what comes after
\* "] : " is always the message.
C15_DisplayOmitsAbsentFields ==
  shown # <<>> =>
    /\ shown = Rendering(err[1])
    /\ \A i \in 1 .. Len(shown) - 1 :
         /\ shown[i + 1] \in Causes => shown[i] = " , raw : "
         /\ shown[i] = " : " => (err[1].msg # None /\ shown[i + 1] = err[1].msg[1])

====
